---- MODULE Spec2Model ----
(***************************************************************************)
(* Model of sys/build.rs, the cargo build script of whisper-rs-sys.        *)
(*                                                                         *)
(* main() is a straight-line program; it is modelled as a sequence of      *)
(* steps, one per block of the source, with pc naming the next block.      *)
(* Text the script prints is appended to stdout, one record per cargo      *)
(* directive; the cmake Config is a record whose defines keep the order of *)
(* the define() calls.  The output directory (staged source tree and       *)
(* bindings file) persists from one invocation of the script to the next.  *)
(*                                                                         *)
(* Strings the script searches with str::contains are sequences of         *)
(* characters, so that contains is a real substring test.                  *)
(***************************************************************************)
EXTENDS Naturals, Sequences, FiniteSets

VARIABLES
    target,      \* env::var("TARGET"), a sequence of characters
    cfg,         \* the cfg predicates the script was compiled with
    env,         \* the process environment (besides TARGET and OUT_DIR)
    pc,          \* the block of main() that runs next
    panicAt,     \* source line of the panic that ended the run, 0 if none
    cpp_stdlib,  \* result of get_cpp_link_stdlib (line 12)
    stdout,      \* the directives printed so far in this run
    config,      \* the cmake::Config under construction
    staged,      \* OUT_DIR/whisper.cpp on disk
    bindings,    \* OUT_DIR/bindings.rs on disk
    packageJson, \* bindings/javascript/package.json on disk
    copied,      \* fs_extra::dir::copy was called in this run
    generator,   \* what bindgen did in this run
    stagedAtStart, \* OUT_DIR/whisper.cpp as this run found it
    prev         \* how the previous run against this OUT_DIR went

vars == <<target, cfg, env, pc, panicAt, cpp_stdlib, stdout, config, staged,
          bindings, packageJson, copied, generator, stagedAtStart, prev>>

----------------------------------------------------------------------------
(* Bounds of the model *)

\* cfg predicates and environment variables set together when the script is
\* run again and again against the same OUT_DIR
MaxRerunInputs == 1
\* cfg predicates enabled together
MaxCfg == 2
\* environment variables set together
MaxEnv == 2

----------------------------------------------------------------------------
(* Character strings *)

s_x86_64  == <<"x", "8", "6", "_", "6", "4">>
s_aarch64 == <<"a", "a", "r", "c", "h", "6", "4">>
s_pc      == <<"p", "c">>
s_unknown == <<"u", "n", "k", "n", "o", "w", "n">>
s_apple   == <<"a", "p", "p", "l", "e">>
s_linux   == <<"l", "i", "n", "u", "x">>
s_darwin  == <<"d", "a", "r", "w", "i", "n">>
s_windows == <<"w", "i", "n", "d", "o", "w", "s">>
s_window  == <<"w", "i", "n", "d", "o", "w">>
s_freebsd == <<"f", "r", "e", "e", "b", "s", "d">>
s_openbsd == <<"o", "p", "e", "n", "b", "s", "d">>
s_android == <<"a", "n", "d", "r", "o", "i", "d">>
s_msvc    == <<"m", "s", "v", "c">>
s_gnu     == <<"g", "n", "u">>
s_gnullvm == <<"g", "n", "u", "l", "l", "v", "m">>
s_musl    == <<"m", "u", "s", "l">>
s_dash    == <<"-">>

\* str::contains: needle occurs in s as a contiguous substring
Contains(s, needle) ==
    \E i \in 1..(Len(s) + 1) :
        /\ i + Len(needle) - 1 <= Len(s)
        /\ SubSeq(s, i, i + Len(needle) - 1) = needle

\* a target triple arch-vendor-os[-abi]; abi = <<>> for a three-part triple
Triple(arch, vendor, os, abi) ==
    arch \o s_dash \o vendor \o s_dash \o os
         \o (IF abi = <<>> THEN <<>> ELSE s_dash \o abi)

\* targets the build script is run for
Targets ==
    { Triple(s_x86_64, s_unknown, s_linux, s_gnu),
      Triple(s_x86_64, s_pc, s_windows, s_msvc),
      Triple(s_x86_64, s_pc, s_windows, s_gnu),
      Triple(s_aarch64, s_apple, s_darwin, <<>>),
      Triple(s_x86_64, s_unknown, s_freebsd, <<>>),
      Triple(s_x86_64, s_unknown, s_openbsd, <<>>),
      Triple(s_aarch64, s_linux, s_android, <<>>) }

\* every combination of the components, for get_cpp_link_stdlib alone
AllTriples ==
    { Triple(a, v, o, b) :
        a \in {s_x86_64, s_aarch64},
        v \in {s_pc, s_unknown, s_apple, s_linux},
        o \in {s_linux, s_windows, s_darwin, s_freebsd, s_openbsd, s_android},
        b \in {<<>>, s_msvc, s_gnu, s_gnullvm, s_musl} }

----------------------------------------------------------------------------
(* get_cpp_link_stdlib, lines 200-210.  Option<&str>: <<>> is None. *)

None == <<>>
Some(x) == <<x>>

\* apple left out of the second test
get_cpp_link_stdlib_NoApple(t) ==
    IF Contains(t, s_msvc) THEN None
    ELSE IF Contains(t, s_freebsd) \/ Contains(t, s_openbsd) THEN Some("c++")
    ELSE IF Contains(t, s_android) THEN Some("c++_shared")
    ELSE Some("stdc++")

get_cpp_link_stdlib(t) ==
    IF Contains(t, s_msvc) THEN None
    ELSE IF Contains(t, s_apple) \/ Contains(t, s_freebsd) \/ Contains(t, s_openbsd)
         THEN Some("c++")
    ELSE IF Contains(t, s_android) THEN Some("c++_shared")
    ELSE Some("stdc++")

----------------------------------------------------------------------------
(* Inputs of a run *)

\* cargo features of the crate, and the two compiler cfgs the script tests
Features == {"coreml", "metal", "cuda", "hipblas", "opencl", "openblas", "force-debug"}
CfgNames == Features \cup {"debug_assertions", "target_os_windows"}

\* cfg!(feature = f) / #[cfg(feature = f)]
Feature(f) == f \in cfg
\* cfg!(target_os = "windows"): the platform the script itself is compiled for
TargetOsWindows == "target_os_windows" \in cfg

\* environment variable names, split at the underscores
k_HIP_PATH       == <<"HIP", "PATH">>
k_CUDA_PATH      == <<"CUDA", "PATH">>
k_DOCS_RS        == <<"DOCS", "RS">>
k_DONT_GENERATE  == <<"WHISPER", "DONT", "GENERATE", "BINDINGS">>
k_WHISPER_METAL  == <<"WHISPER", "METAL">>
k_ALLOW_FALLBACK == <<"WHISPER", "COREML", "ALLOW", "FALLBACK">>

\* the names in the order env::vars() yields them
EnvOrder == <<k_HIP_PATH, k_CUDA_PATH, k_DOCS_RS, k_DONT_GENERATE,
              k_WHISPER_METAL, k_ALLOW_FALLBACK>>
EnvNames == { EnvOrder[i] : i \in 1..Len(EnvOrder) }

\* values a variable may carry; a value is a sequence of path components
EnvValues(k) ==
    IF k = k_HIP_PATH THEN {<<"C:", "hip">>}
    ELSE IF k = k_CUDA_PATH THEN {<<"C:", "cuda">>}
    ELSE IF k = k_WHISPER_METAL THEN {<<"ON">>, <<"OFF">>}
    ELSE IF k = k_ALLOW_FALLBACK THEN {<<"0">>}
    ELSE {<<"1">>}

Environments ==
    UNION { { e \in [D -> UNION { EnvValues(k) : k \in D }] :
                \A k \in D : e[k] \in EnvValues(k) } :
            D \in { D \in SUBSET EnvNames : Cardinality(D) <= MaxEnv } }

\* env::var(k).is_ok()
IsSet(k) == k \in DOMAIN env

\* str::starts_with("WHISPER_") on a name split at the underscores
StartsWithWhisper(k) == Len(k) >= 2 /\ k[1] = "WHISPER"

\* PathBuf
OutDir == <<"OUT_DIR">>
join(p, q) == p \o q

----------------------------------------------------------------------------
(* cargo directives, as println! writes them *)

LinkLib(kind, name) ==
    [d |-> "rustc-link-lib", kind |-> kind, name |-> name, path |-> <<>>]
LinkSearch(kind, path) ==
    [d |-> "rustc-link-search", kind |-> kind, name |-> "", path |-> path]
RerunIfChanged(name) ==
    [d |-> "rerun-if-changed", kind |-> "", name |-> name, path |-> <<>>]
Warning(text) ==
    [d |-> "warning", kind |-> "", name |-> text, path |-> <<>>]

\* lines 12-14
CppLinks(t) ==
    LET lib == get_cpp_link_stdlib(t)
    IN  IF lib # None THEN <<LinkLib("dylib", lib[1])>> ELSE <<>>

\* lines 16-29
AppleLinks(t) ==
    IF Contains(t, s_apple)
    THEN <<LinkLib("framework", "Accelerate")>>
         \o (IF Feature("coreml")
             THEN <<LinkLib("framework", "Foundation"),
                    LinkLib("framework", "CoreML")>>
             ELSE <<>>)
         \o (IF Feature("metal")
             THEN <<LinkLib("framework", "Foundation"),
                    LinkLib("framework", "Metal"),
                    LinkLib("framework", "MetalKit")>>
             ELSE <<>>)
    ELSE <<>>

\* lines 31-32
CoremlLinks ==
    IF Feature("coreml") THEN <<LinkLib("static", "whisper.coreml")>> ELSE <<>>

\* lines 33-37
OpenclLinks ==
    IF Feature("opencl") THEN <<LinkLib("", "clblast"), LinkLib("", "OpenCL")>> ELSE <<>>

\* lines 38-41
OpenblasLinks ==
    IF Feature("openblas") THEN <<LinkLib("", "openblas")>> ELSE <<>>

\* lines 44-46
HipblasLibs ==
    <<LinkLib("", "hipblas"), LinkLib("", "rocblas"), LinkLib("", "amdhip64")>>

\* lines 47-54, when HIP_PATH is set or not needed
HipblasSearch ==
    IF TargetOsWindows
    THEN <<LinkSearch("", join(env[k_HIP_PATH], <<"lib">>))>>
    ELSE <<LinkSearch("", <<"opt", "rocm", "lib">>)>>

\* lines 42-55
HipblasLinks == HipblasLibs \o HipblasSearch

\* lines 58-61
CudaLibs ==
    <<LinkLib("", "cublas"), LinkLib("", "cudart"),
      LinkLib("", "cublasLt"), LinkLib("", "cuda")>>

\* lines 62-73, when CUDA_PATH is set or not needed
CudaSearch ==
    IF TargetOsWindows
    THEN <<LinkSearch("", join(env[k_CUDA_PATH], <<"lib", "x64">>))>>
    ELSE <<LinkLib("", "culibos"),
           LinkSearch("", <<"usr", "local", "cuda", "lib64">>),
           LinkSearch("", <<"usr", "local", "cuda", "lib64", "stubs">>),
           LinkSearch("", <<"opt", "cuda", "lib64">>),
           LinkSearch("", <<"opt", "cuda", "lib64", "stubs">>)>>

\* the search directories printed ahead of the libraries
CudaLinks_SearchFirst == CudaSearch \o CudaLibs

\* lines 56-74
CudaLinks == CudaLibs \o CudaSearch

----------------------------------------------------------------------------
(* cmake::Config *)

NoConfig ==
    [root |-> <<>>, profile |-> "", defines |-> <<>>,
     very_verbose |-> FALSE, pic |-> FALSE]

\* Config::define pushes the pair; cmake later receives one -Dkey=value per
\* pair, in this order, and the last one given for a key is the one in effect
define(c, key, value) ==
    [c EXCEPT !.defines = Append(@, [key |-> key, value |-> value])]

k_BUILD_SHARED_LIBS  == <<"BUILD", "SHARED", "LIBS">>
k_ALL_WARNINGS       == <<"WHISPER", "ALL", "WARNINGS">>
k_ALL_WARNINGS_3RD   == <<"WHISPER", "ALL", "WARNINGS", "3RD", "PARTY">>
k_BUILD_TESTS        == <<"WHISPER", "BUILD", "TESTS">>
k_BUILD_EXAMPLES     == <<"WHISPER", "BUILD", "EXAMPLES">>
k_WHISPER_COREML     == <<"WHISPER", "COREML">>
k_WHISPER_CUDA       == <<"WHISPER", "CUDA">>
k_WHISPER_OPENBLAS   == <<"WHISPER", "OPENBLAS">>
k_WHISPER_CLBLAST    == <<"WHISPER", "CLBLAST">>
k_PREFIX_PATH        == <<"CMAKE", "PREFIX", "PATH">>
k_CMAKE_C_COMPILER   == <<"CMAKE", "C", "COMPILER">>
k_CMAKE_CXX_COMPILER == <<"CMAKE", "CXX", "COMPILER">>
k_CMAKE_BUILD_TYPE   == <<"CMAKE", "BUILD", "TYPE">>

\* lines 122-132
BaseConfig ==
    LET c0 == [NoConfig EXCEPT !.root = join(OutDir, <<"whisper.cpp">>),
                               !.profile = "Release",
                               !.very_verbose = TRUE,
                               !.pic = TRUE]
        c1 == define(c0, k_BUILD_SHARED_LIBS, <<"OFF">>)
        c2 == define(c1, k_ALL_WARNINGS, <<"OFF">>)
        c3 == define(c2, k_ALL_WARNINGS_3RD, <<"OFF">>)
        c4 == define(c3, k_BUILD_TESTS, <<"OFF">>)
    IN  define(c4, k_BUILD_EXAMPLES, <<"OFF">>)

\* the fallback entry left out
CoremlConfig_NoFallback(c) ==
    IF Feature("coreml") THEN define(c, k_WHISPER_COREML, <<"ON">>) ELSE c

\* lines 134-137
CoremlConfig(c) ==
    IF Feature("coreml")
    THEN define(define(c, k_WHISPER_COREML, <<"ON">>), k_ALLOW_FALLBACK, <<"1">>)
    ELSE c

\* lines 139-141
CudaConfig(c) ==
    IF Feature("cuda") THEN define(c, k_WHISPER_CUDA, <<"ON">>) ELSE c

\* line 147: the three cmake package directories, joined with ";"
HipPrefixPath(hip_path) ==
    LET cmake == join(join(hip_path, <<"lib">>), <<"cmake">>)
    IN  join(cmake, <<"hip">>) \o <<";">> \o join(cmake, <<"hipblas">>)
            \o <<";">> \o join(cmake, <<"rocblas">>)

\* the compiler substitution made whatever the platform
HipblasConfig_NoPlatformTest(c) ==
    IF Feature("hipblas")
    THEN define(define(c, k_CMAKE_C_COMPILER, <<"hipcc">>),
                k_CMAKE_CXX_COMPILER, <<"hipcc">>)
    ELSE c

\* lines 143-152, when HIP_PATH is set or not needed
HipblasConfig(c) ==
    IF Feature("hipblas")
    THEN IF TargetOsWindows
         THEN define(c, k_PREFIX_PATH, HipPrefixPath(env[k_HIP_PATH]))
         ELSE define(define(c, k_CMAKE_C_COMPILER, <<"hipcc">>),
                     k_CMAKE_CXX_COMPILER, <<"hipcc">>)
    ELSE c

\* lines 154-156
OpenblasConfig(c) ==
    IF Feature("openblas") THEN define(c, k_WHISPER_OPENBLAS, <<"ON">>) ELSE c

\* lines 158-160
OpenclConfig(c) ==
    IF Feature("opencl") THEN define(c, k_WHISPER_CLBLAST, <<"ON">>) ELSE c

\* the else branch left out
MetalConfig_NoElse(c) ==
    IF Feature("metal") THEN define(c, k_WHISPER_METAL, <<"ON">>) ELSE c

\* lines 162-167
MetalConfig(c) ==
    IF Feature("metal")
    THEN define(c, k_WHISPER_METAL, <<"ON">>)
    ELSE define(c, k_WHISPER_METAL, <<"OFF">>)

\* lines 169-173
DebugConfig(c) ==
    IF "debug_assertions" \in cfg \/ Feature("force-debug")
    THEN define(c, k_CMAKE_BUILD_TYPE, <<"RelWithDebInfo">>)
    ELSE c

\* line 177
Forwarded(k) == StartsWithWhisper(k) /\ k # k_DONT_GENERATE

\* lines 176-180: the loop over env::vars(), from the i-th name on
RECURSIVE PassEnv(_, _)
PassEnv(c, i) ==
    IF i > Len(EnvOrder) THEN c
    ELSE LET k == EnvOrder[i]
         IN  PassEnv(IF IsSet(k) /\ Forwarded(k) THEN define(c, k, env[k]) ELSE c,
                     i + 1)

\* the entries of c for key k, in order
Entries(c, k) == SelectSeq(c.defines, LAMBDA e : e.key = k)
\* the value cmake ends up with for k: that of the last -Dk=...
Effective(c, k) == Entries(c, k)[Len(Entries(c, k))].value

----------------------------------------------------------------------------
(* The run *)

\* no run came before this one
NoPrev == [ran |-> FALSE, ok |-> FALSE, fresh |-> FALSE, copied |-> FALSE]

Init ==
    /\ target \in Targets
    /\ cfg \in { c \in SUBSET CfgNames : Cardinality(c) <= MaxCfg }
    /\ env \in Environments
    /\ pc = "main"
    /\ panicAt = 0
    /\ cpp_stdlib = None
    /\ stdout = <<>>
    /\ config = NoConfig
    /\ staged = "absent"
    /\ bindings = "absent"
    /\ packageJson = FALSE
    /\ copied = FALSE
    /\ generator = "none"
    /\ stagedAtStart = "absent"
    /\ prev = NoPrev

\* the run ends: by a panic at a source line, or with line = 0 by the
\* return of line 119 or at the end of main
Exit(line) ==
    /\ pc' = "exited"
    /\ panicAt' = line
    /\ UNCHANGED <<stagedAtStart, prev>>

Goto(next) ==
    /\ pc' = next
    /\ UNCHANGED <<panicAt, stagedAtStart, prev>>

\* the frameworks printed ahead of the C++ runtime
CommonLinks_FrameworksFirst ==
    AppleLinks(target) \o CppLinks(target) \o CoremlLinks \o OpenclLinks \o OpenblasLinks

\* lines 10-41
CommonLinks ==
    CppLinks(target) \o AppleLinks(target) \o CoremlLinks \o OpenclLinks \o OpenblasLinks

\* lines 10-75: what is printed, and the line of the unwrap that panics (0: none)
CapabilityLinks ==
    IF Feature("hipblas") /\ TargetOsWindows /\ ~IsSet(k_HIP_PATH)
    THEN [out |-> CommonLinks \o HipblasLibs, line |-> 49]
    ELSE LET upToHip == CommonLinks \o (IF Feature("hipblas") THEN HipblasLinks ELSE <<>>)
         IN  IF Feature("cuda") /\ TargetOsWindows /\ ~IsSet(k_CUDA_PATH)
             THEN [out |-> upToHip \o CudaLibs, line |-> 64]
             ELSE [out |-> upToHip \o (IF Feature("cuda") THEN CudaLinks ELSE <<>>)
                             \o <<RerunIfChanged("wrapper.h")>>,
                   line |-> 0]

\* lines 10-75
EmitCapabilityLinks ==
    /\ pc = "main"
    /\ cpp_stdlib' = get_cpp_link_stdlib(target)
    /\ stdout' = CapabilityLinks.out
    /\ IF CapabilityLinks.line # 0
       THEN Exit(CapabilityLinks.line)
       ELSE Goto("stage")
    /\ UNCHANGED <<target, cfg, env, config, staged, bindings, packageJson,
                   copied, generator>>

\* the existence test left out
whisper_root_exists_Never == FALSE

\* line 80: Path::exists on OUT_DIR/whisper.cpp/
whisper_root_exists == staged # "absent"

\* what lines 81-88 can do to the disk: create_dir_all fails; it succeeds
\* and the copy fails, leaving the directory empty or partly filled; both
\* succeed.  line is the panicking line, 0 if none.
StageOutcomes ==
    { [staged |-> "absent",  copied |-> FALSE, line |-> 81],
      [staged |-> "empty",   copied |-> TRUE,  line |-> 83],
      [staged |-> "partial", copied |-> TRUE,  line |-> 83],
      [staged |-> "full",    copied |-> TRUE,  line |-> 0] }

\* lines 77-89
StageSources ==
    /\ pc = "stage"
    /\ IF whisper_root_exists
       THEN /\ Goto("bindings")
            /\ UNCHANGED <<staged, copied>>
       ELSE \E o \in StageOutcomes :
                /\ staged' = o.staged
                /\ copied' = o.copied
                /\ IF o.line # 0
                   THEN Exit(o.line)
                   ELSE Goto("bindings")
    /\ UNCHANGED <<target, cfg, env, cpp_stdlib, stdout, config, bindings,
                   packageJson, generator>>

\* lines 91-93
UseBundledBindings ==
    /\ pc = "bindings"
    /\ IsSet(k_DONT_GENERATE)
    /\ generator' = "skipped"
    /\ \E copy_ok \in BOOLEAN :
          IF copy_ok
          THEN bindings' = "bundled" /\ Goto("docs_rs")
          ELSE UNCHANGED bindings /\ Exit(93)
    /\ UNCHANGED <<target, cfg, env, cpp_stdlib, stdout, config, staged,
                   packageJson, copied>>

\* lines 95-106: bindgen succeeds
GenerateBindings ==
    /\ pc = "bindings"
    /\ ~IsSet(k_DONT_GENERATE)
    /\ generator' = "ok"
    /\ \E write_ok \in BOOLEAN :
          IF write_ok
          THEN bindings' = "generated" /\ Goto("docs_rs")
          ELSE UNCHANGED bindings /\ Exit(105)
    /\ UNCHANGED <<target, cfg, env, cpp_stdlib, stdout, config, staged,
                   packageJson, copied>>

\* a failure of bindgen is fatal
FallBackToBundledBindings_Fatal ==
    /\ pc = "bindings"
    /\ ~IsSet(k_DONT_GENERATE)
    /\ generator' = "err"
    /\ Exit(101)
    /\ UNCHANGED <<target, cfg, env, cpp_stdlib, stdout, config, staged, bindings,
                   packageJson, copied>>

\* lines 95-101, 107-113: bindgen fails
FallBackToBundledBindings ==
    /\ pc = "bindings"
    /\ ~IsSet(k_DONT_GENERATE)
    /\ generator' = "err"
    /\ stdout' = stdout \o <<Warning("Unable to generate bindings"),
                             Warning("Using bundled bindings.rs, which may be out of date")>>
    /\ \E copy_ok \in BOOLEAN :
          IF copy_ok
          THEN bindings' = "bundled" /\ Goto("docs_rs")
          ELSE UNCHANGED bindings /\ Exit(112)
    /\ UNCHANGED <<target, cfg, env, cpp_stdlib, config, staged, packageJson, copied>>

\* lines 117-120
StopOnDocsRs ==
    /\ pc = "docs_rs"
    /\ IF IsSet(k_DOCS_RS)
       THEN Exit(0)
       ELSE Goto("config")
    /\ UNCHANGED <<target, cfg, env, cpp_stdlib, stdout, config, staged, bindings,
                   packageJson, copied, generator>>

\* lines 122-173, when HIP_PATH is set or not needed
ResolvedConfig ==
    DebugConfig(MetalConfig(OpenclConfig(OpenblasConfig(
        HipblasConfig(CudaConfig(CoremlConfig(BaseConfig)))))))

\* lines 122-173
ResolveConfig ==
    /\ pc = "config"
    /\ IF Feature("hipblas") /\ TargetOsWindows /\ ~IsSet(k_HIP_PATH)
       THEN /\ config' = CudaConfig(CoremlConfig(BaseConfig))
            /\ Exit(145)
       ELSE /\ config' = ResolvedConfig
            /\ Goto("passthrough")
    /\ UNCHANGED <<target, cfg, env, cpp_stdlib, stdout, staged, bindings,
                   packageJson, copied, generator>>

\* lines 175-180
PassThroughEnv ==
    /\ pc = "passthrough"
    /\ config' = PassEnv(config, 1)
    /\ Goto("build")
    /\ UNCHANGED <<target, cfg, env, cpp_stdlib, stdout, staged, bindings,
                   packageJson, copied, generator>>

\* line 182: cmake configures and builds the staged tree, or fails (and
\* Config::build panics); it cannot succeed on an empty tree.  The build
\* leaves bindings/javascript/package.json behind.
BuildOutcomes == IF staged = "empty" THEN {FALSE} ELSE BOOLEAN

BuildNative ==
    /\ pc = "build"
    /\ \E build_ok \in BuildOutcomes :
          IF build_ok
          THEN packageJson' = TRUE /\ Goto("linkage")
          ELSE UNCHANGED packageJson /\ Exit(182)
    /\ UNCHANGED <<target, cfg, env, cpp_stdlib, stdout, config, staged, bindings,
                   copied, generator>>

\* lines 184-191
BuildDir(t) ==
    IF Contains(t, s_window) /\ ~Contains(t, s_gnu)
    THEN join(join(OutDir, <<"build">>), <<"Release">>)
    ELSE join(OutDir, <<"build">>)

\* the library printed ahead of its search paths
LinkageLinks_WhisperFirst(t) ==
    <<LinkLib("static", "whisper"),
      LinkSearch("", BuildDir(t)),
      LinkSearch("native", OutDir)>>

\* lines 184-193; Config::build returned its out_dir, which is OUT_DIR
LinkageLinks(t) ==
    <<LinkSearch("", BuildDir(t)),
      LinkSearch("native", OutDir),
      LinkLib("static", "whisper")>>

\* lines 184-196
EmitLinkage ==
    /\ pc = "linkage"
    /\ stdout' = stdout \o LinkageLinks(target)
    /\ packageJson' = FALSE
    /\ Exit(0)
    /\ UNCHANGED <<target, cfg, env, cpp_stdlib, config, staged, bindings,
                   copied, generator>>

\* cargo runs the script again, with the same inputs and the same OUT_DIR
Reinvoke ==
    /\ pc = "exited"
    /\ pc' = "main"
    /\ panicAt' = 0
    /\ cpp_stdlib' = None
    /\ stdout' = <<>>
    /\ config' = NoConfig
    /\ copied' = FALSE
    /\ generator' = "none"
    /\ stagedAtStart' = staged
    /\ prev' = [ran |-> TRUE, ok |-> panicAt = 0,
                fresh |-> stagedAtStart = "absent", copied |-> copied]
    /\ UNCHANGED <<target, cfg, env, staged, bindings, packageJson>>

\* one invocation of the script
Next ==
    \/ EmitCapabilityLinks
    \/ StageSources
    \/ UseBundledBindings
    \/ GenerateBindings
    \/ FallBackToBundledBindings
    \/ StopOnDocsRs
    \/ ResolveConfig
    \/ PassThroughEnv
    \/ BuildNative
    \/ EmitLinkage

Spec == Init /\ [][Next]_vars

\* invocation after invocation against the same OUT_DIR
InitRerun ==
    /\ Init
    /\ Cardinality(cfg) + Cardinality(DOMAIN env) <= MaxRerunInputs

NextRerun ==
    \/ Next
    \/ Reinvoke

SpecRerun == InitRerun /\ [][NextRerun]_vars

----------------------------------------------------------------------------
(* get_cpp_link_stdlib on its own, over every combination of components *)

InitCpp ==
    /\ target \in AllTriples
    /\ cfg = {}
    /\ env = <<>>
    /\ pc = "classify"
    /\ panicAt = 0
    /\ cpp_stdlib = None
    /\ stdout = <<>>
    /\ config = NoConfig
    /\ staged = "absent"
    /\ bindings = "absent"
    /\ packageJson = FALSE
    /\ copied = FALSE
    /\ generator = "none"
    /\ stagedAtStart = "absent"
    /\ prev = NoPrev

Classify ==
    /\ pc = "classify"
    /\ cpp_stdlib' = get_cpp_link_stdlib(target)
    /\ pc' = "classified"
    /\ UNCHANGED <<target, cfg, env, panicAt, stdout, config, staged, bindings,
                   packageJson, copied, generator, stagedAtStart, prev>>

NextCpp == Classify

SpecCpp == InitCpp /\ [][NextCpp]_vars

----------------------------------------------------------------------------
(* Vocabulary of the properties *)

\* the run reached the end of main, or returned at line 119
Completed == pc = "exited" /\ panicAt = 0
\* the run went through lines 184-193
Linked == Completed /\ ~IsSet(k_DOCS_RS)
\* the cmake Config is complete: lines 122-180 have run
Configured ==
    \/ pc \in {"build", "linkage"}
    \/ pc = "exited" /\ panicAt = 182
    \/ Linked
\* the run is past lines 91-115
PastBindings ==
    \/ pc \in {"docs_rs", "config", "passthrough", "build", "linkage"}
    \/ pc = "exited" /\ panicAt \in {0, 145, 182}

Positions == DOMAIN stdout
IsLinkLib(i) == stdout[i].d = "rustc-link-lib"
IsLinkSearch(i) == stdout[i].d = "rustc-link-search"
IsLib(i, names) == IsLinkLib(i) /\ stdout[i].name \in names
IsSearch(i, paths) == IsLinkSearch(i) /\ stdout[i].path \in paths
StaticWhisper == LinkLib("static", "whisper")

CudaLibNames == {"cublas", "cudart", "cublasLt", "cuda", "culibos"}
HipLibNames == {"hipblas", "rocblas", "amdhip64"}
CudaSearchPaths ==
    { <<"usr", "local", "cuda", "lib64">>, <<"usr", "local", "cuda", "lib64", "stubs">>,
      <<"opt", "cuda", "lib64">>, <<"opt", "cuda", "lib64", "stubs">>,
      <<"C:", "cuda", "lib", "x64">> }
RocmSearchPaths == { <<"opt", "rocm", "lib">>, <<"C:", "hip", "lib">> }
OutputSearchPaths ==
    { <<"OUT_DIR", "build">>, <<"OUT_DIR", "build", "Release">>, <<"OUT_DIR">> }

\* the search directive at i is where the library at j is looked up
ResolvesAgainst(i, j) ==
    \/ IsSearch(i, CudaSearchPaths) /\ IsLib(j, CudaLibNames)
    \/ IsSearch(i, RocmSearchPaths) /\ IsLib(j, HipLibNames)
    \/ IsSearch(i, OutputSearchPaths) /\ stdout[j] = StaticWhisper

----------------------------------------------------------------------------
(* C1: Source Staging's existence check and copy are atomic: a run whose   *)
(* copy of the source tree failed leaves no destination directory behind,  *)
(* so no later run against the same OUT_DIR skips the copy and reaches the *)
(* native build with a staged tree that is empty or partial.               *)
C1_NoBuildOnPartialTree ==
    pc = "build" => staged = "full"

----------------------------------------------------------------------------
----------------------------------------------------------------------------
\* the libraries the enabled capabilities and the target call for
CapabilityLibNames ==
    (IF Contains(target, s_apple) THEN {"Accelerate"} ELSE {})
    \cup (IF Contains(target, s_apple) /\ Feature("coreml")
          THEN {"Foundation", "CoreML"} ELSE {})
    \cup (IF Contains(target, s_apple) /\ Feature("metal")
          THEN {"Foundation", "Metal", "MetalKit"} ELSE {})
    \cup (IF Feature("coreml") THEN {"whisper.coreml"} ELSE {})
    \cup (IF Feature("opencl") THEN {"clblast", "OpenCL"} ELSE {})
    \cup (IF Feature("openblas") THEN {"openblas"} ELSE {})
    \cup (IF Feature("hipblas") THEN HipLibNames ELSE {})
    \cup (IF Feature("cuda") THEN {"cublas", "cudart", "cublasLt", "cuda"} ELSE {})
    \cup (IF Feature("cuda") /\ ~TargetOsWindows THEN {"culibos"} ELSE {})

(* C3: in every run that reaches the Linkage Emitter, static=whisper is    *)
(* printed exactly once, after every capability-specific library directive *)
(* and after both output search-path directives, and no link-library       *)
(* directive follows it.                                                   *)
C3_StaticWhisperOnceAndLast ==
    Linked =>
        /\ Cardinality({ k \in Positions : stdout[k] = StaticWhisper }) = 1
        /\ \A k \in Positions :
              stdout[k] = StaticWhisper =>
                  /\ \A j \in Positions : IsLinkLib(j) /\ j # k => j < k
                  /\ \A n \in CapabilityLibNames :
                        \E j \in Positions : j < k /\ IsLib(j, {n})
                  /\ \E i \in Positions :
                        i < k /\ stdout[i] = LinkSearch("", BuildDir(target))
                  /\ \E i \in Positions :
                        i < k /\ stdout[i] = LinkSearch("native", OutDir)

\* a linked run for an Apple target with coreml
C3_Witness ==
    /\ Linked
    /\ Feature("coreml") /\ Contains(target, s_apple)
    /\ \E j \in Positions : IsLib(j, {"whisper.coreml"})

----------------------------------------------------------------------------
\* the values of the entries of the Config for key k, in order
Values(k) == [i \in DOMAIN Entries(config, k) |-> Entries(config, k)[i].value]

\* some directive or Config entry is built from the value of HIP_PATH
UsesHipPath ==
    \/ \E i \in Positions :
          /\ Len(stdout[i].path) >= 2
          /\ SubSeq(stdout[i].path, 1, 2) = <<"C:", "hip">>
    \/ \E i \in DOMAIN config.defines :
          /\ Len(config.defines[i].value) >= 2
          /\ SubSeq(config.defines[i].value, 1, 2) = <<"C:", "hip">>

(* C4: with hipblas enabled, on a non-Windows platform the Config gets     *)
(* CMAKE_C_COMPILER and CMAKE_CXX_COMPILER set to hipcc and no             *)
(* CMAKE_PREFIX_PATH, and the run does not use HIP_PATH; on Windows it     *)
(* gets CMAKE_PREFIX_PATH set to <HIP_PATH>/lib/cmake/{hip,hipblas,        *)
(* rocblas} joined by ";" and neither compiler entry; a missing HIP_PATH   *)
(* aborts the run on Windows and only on Windows.                          *)
C4_HipblasByPlatform ==
    /\ Feature("hipblas") /\ ~TargetOsWindows =>
          /\ Configured =>
                /\ Values(k_CMAKE_C_COMPILER) = << <<"hipcc">> >>
                /\ Values(k_CMAKE_CXX_COMPILER) = << <<"hipcc">> >>
                /\ Values(k_PREFIX_PATH) = <<>>
          /\ ~UsesHipPath
          /\ pc # "main" => \E i \in Positions : IsSearch(i, {<<"opt", "rocm", "lib">>})
    /\ Feature("hipblas") /\ TargetOsWindows /\ Configured =>
          /\ Values(k_PREFIX_PATH) =
                << <<"C:", "hip", "lib", "cmake", "hip", ";",
                     "C:", "hip", "lib", "cmake", "hipblas", ";",
                     "C:", "hip", "lib", "cmake", "rocblas">> >>
          /\ Values(k_CMAKE_C_COMPILER) = <<>>
          /\ Values(k_CMAKE_CXX_COMPILER) = <<>>
    /\ Feature("hipblas") /\ TargetOsWindows /\ ~IsSet(k_HIP_PATH) /\ pc # "main" =>
          pc = "exited" /\ panicAt = 49
    /\ panicAt \in {49, 145} =>
          Feature("hipblas") /\ TargetOsWindows /\ ~IsSet(k_HIP_PATH)

\* hipblas on Windows with HIP_PATH set, the Config complete
C4_Witness ==
    /\ Feature("hipblas") /\ TargetOsWindows /\ IsSet(k_HIP_PATH)
    /\ Configured
    /\ Values(k_PREFIX_PATH) # <<>>

----------------------------------------------------------------------------
\* the value the metal rule of the resolver gives WHISPER_METAL
MetalByFlag == IF Feature("metal") THEN <<"ON">> ELSE <<"OFF">>

(* C5, as claimed: for every target, flag set and environment the Config   *)
(* handed to the native build has a WHISPER_METAL entry, and its value is  *)
(* ON when metal is enabled and OFF when it is disabled.                   *)
C5_MetalValueFollowsFlag ==
    Configured =>
        /\ Values(k_WHISPER_METAL) # <<>>
        /\ Effective(config, k_WHISPER_METAL) = MetalByFlag

(* C5, amended: the Config handed to the native build always holds the     *)
(* resolver's WHISPER_METAL entry, ON when metal is enabled and OFF when   *)
(* it is disabled, never absent; it is the only one and the value in       *)
(* effect unless the environment sets WHISPER_METAL, in which case the     *)
(* passthrough adds a second entry with the environment's value after it,  *)
(* and that one is in effect.                                              *)
C5_MetalEntryAlwaysPresent ==
    /\ pc = "passthrough" => Values(k_WHISPER_METAL) = <<MetalByFlag>>
    /\ Configured =>
          IF IsSet(k_WHISPER_METAL)
          THEN /\ Values(k_WHISPER_METAL) = <<MetalByFlag, env[k_WHISPER_METAL]>>
               /\ Effective(config, k_WHISPER_METAL) = env[k_WHISPER_METAL]
          ELSE /\ Values(k_WHISPER_METAL) = <<MetalByFlag>>
               /\ Effective(config, k_WHISPER_METAL) = MetalByFlag

\* metal disabled, WHISPER_METAL=ON in the environment, the Config complete
C5_Witness ==
    /\ Configured
    /\ ~Feature("metal")
    /\ IsSet(k_WHISPER_METAL) /\ env[k_WHISPER_METAL] = <<"ON">>
    /\ Effective(config, k_WHISPER_METAL) = <<"ON">>

----------------------------------------------------------------------------
(* C6, as claimed: with coreml enabled the Config holds WHISPER_COREML=ON  *)
(* and exactly one WHISPER_COREML_ALLOW_FALLBACK entry; with coreml        *)
(* disabled static=whisper.coreml is never printed and the resolver sets   *)
(* neither coreml entry.                                                   *)
C6_ExactlyOneFallbackEntry ==
    /\ Feature("coreml") /\ Configured =>
          /\ <<"ON">> \in { Values(k_WHISPER_COREML)[i] :
                              i \in DOMAIN Values(k_WHISPER_COREML) }
          /\ Len(Values(k_ALLOW_FALLBACK)) = 1
    /\ ~Feature("coreml") =>
          /\ \A i \in Positions : stdout[i] # LinkLib("static", "whisper.coreml")
          /\ pc = "passthrough" =>
                Values(k_WHISPER_COREML) = <<>> /\ Values(k_ALLOW_FALLBACK) = <<>>

(* C6, amended: with coreml enabled the resolver sets WHISPER_COREML=ON    *)
(* and exactly one WHISPER_COREML_ALLOW_FALLBACK entry, with value 1; the  *)
(* Config handed to the native build holds that entry alone unless the     *)
(* environment sets WHISPER_COREML_ALLOW_FALLBACK, which the passthrough   *)
(* adds as a second entry after it.  With coreml disabled                  *)
(* static=whisper.coreml is never printed and the resolver sets neither    *)
(* coreml entry.                                                           *)
C6_OneFallbackEntryFromResolver ==
    /\ Feature("coreml") /\ pc = "passthrough" =>
          /\ Values(k_WHISPER_COREML) = << <<"ON">> >>
          /\ Values(k_ALLOW_FALLBACK) = << <<"1">> >>
    /\ Feature("coreml") /\ Configured =>
          /\ Values(k_WHISPER_COREML) = << <<"ON">> >>
          /\ Values(k_ALLOW_FALLBACK) =
                IF IsSet(k_ALLOW_FALLBACK)
                THEN << <<"1">>, env[k_ALLOW_FALLBACK] >>
                ELSE << <<"1">> >>
    /\ ~Feature("coreml") =>
          /\ \A i \in Positions : stdout[i] # LinkLib("static", "whisper.coreml")
          /\ pc = "passthrough" =>
                Values(k_WHISPER_COREML) = <<>> /\ Values(k_ALLOW_FALLBACK) = <<>>

\* coreml enabled, WHISPER_COREML_ALLOW_FALLBACK in the environment
C6_Witness ==
    /\ Feature("coreml")
    /\ IsSet(k_ALLOW_FALLBACK)
    /\ Configured
    /\ Len(Values(k_ALLOW_FALLBACK)) = 2

----------------------------------------------------------------------------
(* C7, as claimed: for every triple that names an Apple target the C++     *)
(* runtime link name is "c++", whatever the ABI component (msvc, gnu or    *)
(* other).                                                                 *)
C7_AppleAlwaysCxx ==
    pc = "classified" /\ Contains(target, s_apple) => cpp_stdlib = Some("c++")

(* C7, amended: for every triple that names an Apple target and does not   *)
(* contain msvc the C++ runtime link name is "c++" (gnu or any other ABI   *)
(* component); an Apple triple that contains msvc has none, the msvc test  *)
(* coming first.                                                           *)
C7_AppleCxxUnlessMsvc ==
    pc = "classified" /\ Contains(target, s_apple) =>
        IF Contains(target, s_msvc)
        THEN cpp_stdlib = None
        ELSE cpp_stdlib = Some("c++")

\* an Apple triple with the gnu ABI component has been classified
C7_Witness ==
    /\ pc = "classified"
    /\ Contains(target, s_apple) /\ Contains(target, s_gnu)
    /\ cpp_stdlib = Some("c++")

----------------------------------------------------------------------------
\* the positions of the dylib directives printed
DylibPositions == { i \in Positions : IsLinkLib(i) /\ stdout[i].kind = "dylib" }
\* the only dylib directive is the first directive and names lib
OnlyDylibIs(lib) == DylibPositions = {1} /\ stdout[1].name = lib

----------------------------------------------------------------------------
(* C9: of two successive successful runs against the same OUT_DIR the      *)
(* second finds the destination present, does not copy and leaves the      *)
(* staged tree as it was; when the first of the two found no destination,  *)
(* it is the one that copied, so the copy is made exactly once.            *)
C9_SecondRunDoesNotCopy ==
    prev.ran /\ prev.ok /\ Completed =>
        /\ stagedAtStart # "absent"
        /\ ~copied
        /\ staged = stagedAtStart
        /\ prev.fresh => prev.copied /\ staged = "full"

\* the second of two successful runs, the first on a fresh OUT_DIR
C9_Witness ==
    /\ prev.ran /\ prev.ok /\ prev.fresh /\ prev.copied
    /\ Linked
    /\ ~copied

----------------------------------------------------------------------------
\* the two warnings of lines 108-109 are on stdout
Warned ==
    /\ \E i \in Positions : stdout[i] = Warning("Unable to generate bindings")
    /\ \E i \in Positions :
          stdout[i] = Warning("Using bundled bindings.rs, which may be out of date")

(* C10, as claimed: whenever the generator fails the run copies the        *)
(* bundled bindings to the output location, prints a warning and goes on   *)
(* instead of aborting; with WHISPER_DONT_GENERATE_BINDINGS set the        *)
(* generator is not invoked and the bundled copy is used; every run past   *)
(* this stage has a bindings file at the output location.                  *)
C10_GeneratorFailureNeverAborts ==
    /\ generator = "err" => Warned /\ bindings = "bundled" /\ PastBindings
    /\ IsSet(k_DONT_GENERATE) => generator \in {"none", "skipped"}
    /\ generator = "skipped" /\ PastBindings => bindings = "bundled"
    /\ PastBindings => bindings # "absent"

(* C10, amended: whenever the generator fails the run prints the warning   *)
(* and copies the bundled bindings to the output location; it goes on to   *)
(* the next stage when that copy succeeds, and aborts only when the copy   *)
(* itself fails (line 112).  With WHISPER_DONT_GENERATE_BINDINGS set the   *)
(* generator is not invoked and the bundled copy is used; every run past   *)
(* this stage has a bindings file at the output location.                  *)
C10_GeneratorFailureFallsBack ==
    /\ generator = "err" =>
          /\ Warned
          /\ \/ bindings = "bundled" /\ PastBindings
             \/ pc = "exited" /\ panicAt = 112
    /\ IsSet(k_DONT_GENERATE) => generator \in {"none", "skipped"}
    /\ generator = "skipped" /\ PastBindings => bindings = "bundled"
    /\ PastBindings => bindings # "absent"

\* the generator failed and the run went on to link
C10_Witness ==
    /\ generator = "err"
    /\ Linked
    /\ bindings = "bundled"

====
